---- MODULE Spec2Model ----
(***************************************************************************)
(* Live Translator: the three versions of the page script kept in the      *)
(* repository (v4 = src/unnamed/part_001, v6 = src/unnamed/part_002,       *)
(* current = src/live-translator/app.js).                                  *)
(*                                                                         *)
(* A text is a sequence of one-character strings, so that split(' '),      *)
(* join(' '), trim(), endsWith() and includes() are computed as JavaScript *)
(* computes them.                                                          *)
(***************************************************************************)
EXTENDS Integers, Sequences, FiniteSets, TLC

\* ------------------------------------------------------------------ bounds
\* longest transcript, in words, of the enumerated inputs of the overlap functions
MaxWords == 3
\* longest run of one repeated word among the inputs of the overlap functions
MaxRun == 12
\* segments accepted in one run; after the last one only its requests complete
MaxSegments == 2
\* translateAndAppend calls awaiting their fetch at once
MaxInFlight == 4
\* provider failures in one run
MaxFailures == 1
\* translateToAllLanguages calls in one run; after the last one only its
\* requests complete
MaxCalls == 2
\* restart timers pending at once
MaxTimers == 1

\* ------------------------------------------------- program constants
\* removeOverlap checks up to 5 words (v4)
Window4 == 5
\* removeOverlapStr checks up to 10 words (v6)
Window10 == 10

\* ------------------------------------------------------------- JS strings
Empty == <<>>
SP == " "
WordA == <<"a">>
WordBA == <<"b", "a">>
Vocab == {WordA, WordBA}

Min(a, b) == IF a < b THEN a ELSE b
Max(a, b) == IF a > b THEN a ELSE b

\* String.prototype.split(' '): one piece per separator, "" gives [""]
RECURSIVE Split(_)
Split(s) ==
    IF \A i \in 1..Len(s) : s[i] # SP
    THEN <<s>>
    ELSE LET p == CHOOSE i \in 1..Len(s) :
                     s[i] = SP /\ \A j \in 1..(i - 1) : s[j] # SP
         IN  <<SubSeq(s, 1, p - 1)>> \o Split(SubSeq(s, p + 1, Len(s)))

\* Array.prototype.join(' ')
RECURSIVE Join(_)
Join(ws) ==
    IF Len(ws) = 0 THEN Empty
    ELSE IF Len(ws) = 1 THEN ws[1]
    ELSE ws[1] \o <<SP>> \o Join(Tail(ws))

\* String.prototype.trim()
RECURSIVE Trim(_)
Trim(s) ==
    IF Len(s) = 0 THEN s
    ELSE IF s[1] = SP THEN Trim(Tail(s))
    ELSE IF s[Len(s)] = SP THEN Trim(SubSeq(s, 1, Len(s) - 1))
    ELSE s

\* String.prototype.endsWith(t)
EndsWith(s, t) ==
    /\ Len(t) <= Len(s)
    /\ SubSeq(s, Len(s) - Len(t) + 1, Len(s)) = t

\* String.prototype.includes(t)
Includes(s, t) ==
    \E i \in 0..(Len(s) - Len(t)) : SubSeq(s, i + 1, i + Len(t)) = t

\* Array.prototype.slice(-i), slice(0, i), slice(i)
SliceLast(ws, i) == SubSeq(ws, Max(1, Len(ws) - i + 1), Len(ws))
SliceFirst(ws, i) == SubSeq(ws, 1, Min(i, Len(ws)))
SliceFrom(ws, i) == SubSeq(ws, i + 1, Len(ws))

\* ------------------------------------------------ v4: removeOverlap
\* mutant: the loop counting up, so that the shortest overlap is removed
removeOverlapShortest(prevWords, currWords, current, i) ==
    LET ks == {k \in 1..i :
                  Join(SliceLast(prevWords, k)) = Join(SliceFirst(currWords, k))}
    IN  IF ks = {} THEN current
        ELSE Join(SliceFrom(currWords, CHOOSE k \in ks : \A j \in ks : k <= j))

\* the for loop of removeOverlap, i counting down from maxCheck
RECURSIVE removeOverlapLoop(_, _, _, _)
removeOverlapLoop(prevWords, currWords, current, i) ==
    IF i <= 0 THEN current
    ELSE IF Join(SliceLast(prevWords, i)) = Join(SliceFirst(currWords, i))
         THEN Join(SliceFrom(currWords, i))
         ELSE removeOverlapLoop(prevWords, currWords, current, i - 1)

\* mutant: the window of 5 words left out
maxCheck4NoWindow(prevWords, currWords) == Min(Len(prevWords), Len(currWords))

maxCheck4(prevWords, currWords) ==
    Min(Min(Len(prevWords), Len(currWords)), Window4)

removeOverlap(prev, current) ==
    IF prev = Empty THEN current
    ELSE LET prevWords == Split(prev)
             currWords == Split(current)
         IN  removeOverlapLoop(prevWords, currWords, current,
                               maxCheck4(prevWords, currWords))

\* ------------------------------------------------ v6: removeOverlapStr
RECURSIVE removeOverlapStrLoop(_, _, _, _)
removeOverlapStrLoop(c, n, newText, i) ==
    IF i <= 0 THEN newText
    ELSE IF Join(SliceLast(c, i)) = Join(SliceFirst(n, i))
         THEN Join(SliceFrom(n, i))
         ELSE removeOverlapStrLoop(c, n, newText, i - 1)

maxCheck10(c, n) == Min(Min(Len(c), Len(n)), Window10)

removeOverlapStr(currentText, newText) ==
    IF currentText = Empty \/ newText = Empty THEN newText
    ELSE LET c == Split(Trim(currentText))
             n == Split(Trim(newText))
         IN  removeOverlapStrLoop(c, n, newText, maxCheck10(c, n))

\* ------------------------------------------------------------- inputs
\* every transcript of at most n words over the vocabulary, single-spaced
WordSeqs(n) == UNION {[1..k -> Vocab] : k \in 0..n}

\* k times the word "a", then the words of tail
Run(k, tail) == Join([i \in 1..k |-> WordA] \o tail)

\* inputs of the overlap functions: the short texts, one more word, and runs
\* long enough to pass both windows
OverlapTexts ==
    {Join(ws) : ws \in WordSeqs(MaxWords)}
        \cup {Run(k, <<>>) : k \in 3..MaxRun}
        \cup {Run(k, <<WordBA>>) : k \in 3..MaxRun}
        \cup {Run(k, <<WordBA, WordA>>) : k \in 3..MaxRun}

\* transcripts the recognition engine delivers: nothing, one word, two words
\* that repeat or overlap a one-word transcript, a transcript of one word more
\* than the v4 window, one still carrying its surrounding blanks and one with a
\* doubled blank
LongText == Run(Window4, <<WordBA>>)
OneWordTexts == {WordA, WordBA}
InterimTexts == {WordA}
Transcripts ==
    {Empty, LongText, Join(<<WordA, WordA>>), Join(<<WordA, WordBA>>)}
        \cup OneWordTexts
\* "a  ba": the words of "a ba" with two blanks between them
SpacedText == WordA \o <<SP, SP>> \o WordBA
RawTranscripts == Transcripts \cup {<<SP>> \o WordA \o <<SP>>, SpacedText}

\* one entry of event.results, from event.resultIndex on
Final(t) == [transcript |-> t, isFinal |-> TRUE]
Interim(t) == [transcript |-> t, isFinal |-> FALSE]
\* events of one result, and of two results with one-word transcripts
Events ==
    {<<Final(t)>> : t \in RawTranscripts}
        \cup {<<Interim(t)>> : t \in InterimTexts}
        \cup {<<Final(t), Final(u)>> : t \in OneWordTexts, u \in OneWordTexts}
        \cup {<<Final(t), Interim(u)>> : t \in OneWordTexts, u \in InterimTexts}

Langs == {"en", "fr", "zh"}
Programs == {"v4", "v6", "app"}

VARIABLES
    ovPrev,     \* overlap functions: the previous text
    ovNew,      \* overlap functions: the new text
    ovOut,      \* overlap functions: the two results, or "none" before the call
    prog,       \* which version of the script the page runs
    isListening,        \* this.isListening
    engine,             \* the SpeechRecognition object: idle, starting, running, ending
    restartTimers,      \* pending setTimeout callbacks scheduled by onend
    wantsStop,          \* history: the user's last mic click asked for a stop
    lastFinalText,      \* v4: this.lastFinalText
    originalContainer,  \* v4, v6: the source column, a sequence of [seg, text]
    containers,         \* v4, v6: the target columns, lang -> sequence of entries
    interimText,        \* v6: textContent of the interim span of the source column
    requests,           \* v4, v6: translateAndAppend calls awaiting fetch
    nSegments,          \* v4, v6: elements created so far by processFinalSegment
    nFailures,          \* history: provider failures so far
    lastDelivered,      \* history: the final transcript the last event delivered,
                        \* until the user or the engine acts again
    finalTranscript,    \* app.js: this.finalTranscript
    lastProcessedText,  \* app.js: this.lastProcessedText
    translationCache,   \* app.js: this.translationCache, entries [text, lang, value]
    translationTimer,   \* app.js: the debounce timer and the interim text it holds
    originalText,       \* app.js: the source column, final and interim span
    targetText,         \* app.js: the target columns, lang -> content
    calls,              \* app.js: translateToAllLanguages calls awaiting Promise.all
    nCalls,             \* app.js: translateToAllLanguages calls so far
    lastCallText        \* history: the text of the most recently started call

ovVars == <<ovPrev, ovNew, ovOut>>
sessionVars == <<isListening, engine, restartTimers, wantsStop>>
columnVars == <<originalContainer, containers, interimText, requests, nSegments,
                nFailures>>
appVars == <<finalTranscript, lastProcessedText, translationCache,
             translationTimer, originalText, targetText, calls, nCalls,
             lastCallText>>
vars == <<ovVars, prog, sessionVars, lastFinalText, columnVars, lastDelivered,
          appVars>>

\* ------------------------------------------- the overlap functions alone
NoResult == [called |-> FALSE, v4 |-> Empty, v6 |-> Empty]
NoDelivery == [some |-> FALSE, text |-> Empty]

\* the state after construction (constructor, init, clearAll)
ProgramInit ==
    /\ isListening = FALSE
    /\ engine = "idle"
    /\ restartTimers = 0
    /\ wantsStop = FALSE
    /\ lastFinalText = Empty
    /\ originalContainer = <<>>
    /\ containers = [l \in Langs |-> <<>>]
    /\ interimText = Empty
    /\ requests = {}
    /\ nSegments = 0
    /\ nFailures = 0
    /\ lastDelivered = NoDelivery
    /\ finalTranscript = Empty
    /\ lastProcessedText = Empty
    /\ translationCache = {}
    /\ translationTimer = [set |-> FALSE, interim |-> Empty]
    /\ originalText = [final |-> Empty, interim |-> Empty]
    /\ targetText = [l \in Langs |-> [kind |-> "placeholder", src |-> Empty]]
    /\ calls = {}
    /\ nCalls = 0
    /\ lastCallText = Empty

OverlapInit ==
    /\ ovPrev \in OverlapTexts
    /\ ovNew \in OverlapTexts
    /\ ovOut = NoResult
    /\ prog = "none"
    /\ ProgramInit

CallOverlap ==
    /\ ~ovOut.called
    /\ ovOut' = [called |-> TRUE,
                 v4 |-> removeOverlap(ovPrev, ovNew),
                 v6 |-> removeOverlapStr(ovPrev, ovNew)]
    /\ UNCHANGED <<ovPrev, ovNew, prog, sessionVars, lastFinalText, columnVars, appVars>>
    /\ lastDelivered' = NoDelivery

OverlapNext == CallOverlap

OverlapSpec == OverlapInit /\ [][OverlapNext]_vars

\* ------------------------------------------------ the recognition engine
\* SpeechRecognition.start(): starts an idle engine, throws otherwise
recognitionStart(e) == IF e = "idle" THEN "starting" ELSE e
\* SpeechRecognition.stop(): the end event follows; nothing to stop when idle
recognitionStop(e) == IF e \in {"starting", "running"} THEN "ending" ELSE e

\* the user and the engine act until the run's last segment is accepted
Open == nSegments < MaxSegments

\* --------------------------------------------------------------- v4
Dots == [kind |-> "dots", src |-> Empty]
Blank == [kind |-> "blank", src |-> Empty]
\* data.responseData.translatedText for q = text
Translated(text) == [kind |-> "translated", src |-> text]

\* recognition.onstart
V4_onstart ==
    /\ prog = "v4"
    /\ Open
    /\ engine = "starting"
    /\ engine' = "running"
    /\ isListening' = TRUE
    /\ UNCHANGED <<ovVars, prog, restartTimers, wantsStop, lastFinalText,
                   columnVars, appVars>>
    /\ lastDelivered' = NoDelivery

\* mutant: onend that never schedules the restart
V4_onendNoRestart ==
    /\ prog = "v4"
    /\ Open
    /\ engine \in {"starting", "running", "ending"}
    /\ engine' = "idle"
    /\ UNCHANGED <<ovVars, prog, isListening, restartTimers, wantsStop,
                   lastFinalText, columnVars, appVars>>
    /\ lastDelivered' = NoDelivery

\* recognition.onend: schedules the restart while isListening
V4_onend ==
    /\ prog = "v4"
    /\ Open
    /\ engine \in {"starting", "running", "ending"}
    /\ engine' = "idle"
    /\ IF isListening
       THEN /\ restartTimers < MaxTimers
            /\ restartTimers' = restartTimers + 1
       ELSE UNCHANGED restartTimers
    /\ UNCHANGED <<ovVars, prog, isListening, wantsStop, lastFinalText,
                   columnVars, appVars>>
    /\ lastDelivered' = NoDelivery

\* the callback of onend's setTimeout: try { recognition.start() } catch {}
V4_restartTimer ==
    /\ prog = "v4"
    /\ Open
    /\ restartTimers > 0
    /\ restartTimers' = restartTimers - 1
    /\ engine' = recognitionStart(engine)
    /\ UNCHANGED <<ovVars, prog, isListening, wantsStop, lastFinalText,
                   columnVars, appVars>>
    /\ lastDelivered' = NoDelivery

\* the click handler of micButton
V4_micClick ==
    /\ prog = "v4"
    /\ Open
    /\ IF isListening
       THEN /\ isListening' = FALSE
            /\ engine' = recognitionStop(engine)
            /\ wantsStop' = TRUE
       ELSE /\ engine' = recognitionStart(engine)
            /\ wantsStop' = FALSE
            /\ UNCHANGED isListening
    /\ UNCHANGED <<ovVars, prog, restartTimers, lastFinalText, columnVars, appVars>>
    /\ lastDelivered' = NoDelivery

\* mutant: the new segment put in front of the column
prependSource(column, seg, text) == <<[seg |-> seg, text |-> text]>> \o column

\* appendSegment(container, text, cls) for the source column
appendSource(column, seg, text) == Append(column, [seg |-> seg, text |-> text])

\* the three translateAndAppend calls of processFinalSegment up to their await:
\* each appends the '...' placeholder to its column
V4_placeholders(cols, seg) ==
    [l \in Langs |-> Append(cols[l], [seg |-> seg, cls |-> "loading-text",
                                      content |-> Dots])]

\* mutant: the fan-out leaving out the last language
NewRequestsTwo(seg, text) ==
    {[seg |-> seg, lang |-> l, text |-> text] : l \in {"en", "fr"}}

NewRequests(seg, text) == {[seg |-> seg, lang |-> l, text |-> text] : l \in Langs}

\* mutant: the loop remembering the trimmed text instead of the transcript
RECURSIVE V4_loopTrimmed(_, _, _)
V4_loopTrimmed(results, i, st) ==
    IF i > Len(results) THEN st
    ELSE IF ~results[i].isFinal THEN V4_loopTrimmed(results, i + 1, st)
    ELSE LET transcript == Trim(results[i].transcript)
             cleanText == removeOverlap(st.last, transcript)
             seg == st.n + 1
             shown == IF Trim(cleanText) = Empty THEN st
                      ELSE [st EXCEPT !.orig = appendSource(st.orig, seg, cleanText),
                                      !.cols = V4_placeholders(st.cols, seg),
                                      !.reqs = st.reqs \cup NewRequests(seg, cleanText),
                                      !.n = seg]
         IN  IF Len(cleanText) > 0
             THEN V4_loopTrimmed(results, i + 1, [shown EXCEPT !.last = cleanText])
             ELSE V4_loopTrimmed(results, i + 1, st)

\* the loop of onresult over event.results; st carries this.lastFinalText and
\* the columns as the loop leaves them
RECURSIVE V4_loop(_, _, _)
V4_loop(results, i, st) ==
    IF i > Len(results) THEN st
    ELSE IF ~results[i].isFinal THEN V4_loop(results, i + 1, st)
    ELSE LET transcript == Trim(results[i].transcript)
             cleanText == removeOverlap(st.last, transcript)
             seg == st.n + 1
             \* processFinalSegment returns early on a blank text
             shown == IF Trim(cleanText) = Empty THEN st
                      ELSE [st EXCEPT !.orig = appendSource(st.orig, seg, cleanText),
                                      !.cols = V4_placeholders(st.cols, seg),
                                      !.reqs = st.reqs \cup NewRequests(seg, cleanText),
                                      !.n = seg]
         IN  IF Len(cleanText) > 0
             THEN V4_loop(results, i + 1, [shown EXCEPT !.last = transcript])
             ELSE V4_loop(results, i + 1, st)

\* the transcript of an event that carries one final result and nothing else
Delivery(ev) ==
    IF Len(ev) = 1 /\ ev[1].isFinal
    THEN [some |-> TRUE, text |-> Trim(ev[1].transcript)]
    ELSE NoDelivery

\* recognition.onresult
V4_onresult(ev) ==
    /\ prog = "v4"
    /\ Open
    /\ engine = "running"
    /\ LET st == V4_loop(ev, 1, [last |-> lastFinalText, orig |-> originalContainer,
                                 cols |-> containers, reqs |-> requests,
                                 n |-> nSegments])
       IN  /\ st.n <= MaxSegments
           /\ Cardinality(st.reqs) <= MaxInFlight
           /\ lastFinalText' = st.last
           /\ originalContainer' = st.orig
           /\ containers' = st.cols
           /\ requests' = st.reqs
           /\ nSegments' = st.n
    /\ lastDelivered' = Delivery(ev)
    /\ UNCHANGED <<ovVars, prog, sessionVars, interimText, nFailures, appVars>>

\* the element p of a request, wherever it still is in a column
SetContent(column, seg, cls, content) ==
    [i \in 1..Len(column) |->
        IF column[i].seg = seg
        THEN [seg |-> seg, cls |-> cls, content |-> content]
        ELSE column[i]]

Outcomes == {"ok", "status", "throw"}

\* mutant: a failed request takes its segment out of the source column
V4_translateDoneRollback(r, outcome) ==
    /\ prog = "v4"
    /\ r \in requests
    /\ requests' = requests \ {r}
    /\ IF outcome = "ok" THEN UNCHANGED nFailures
       ELSE /\ nFailures < MaxFailures
            /\ nFailures' = nFailures + 1
    /\ containers' =
         IF outcome = "ok"
         THEN [containers EXCEPT ![r.lang] =
                  SetContent(@, r.seg, "final-text animate-in", Translated(r.text))]
         ELSE containers
    /\ originalContainer' =
         IF outcome = "ok" THEN originalContainer
         ELSE SelectSeq(originalContainer, LAMBDA e : e.seg # r.seg)
    /\ UNCHANGED <<ovVars, prog, sessionVars, lastFinalText, interimText,
                   nSegments, lastDelivered, appVars>>

\* translateAndAppend after its await: status 200, another status, exception
V4_translateDone(r, outcome) ==
    /\ prog = "v4"
    /\ r \in requests
    /\ requests' = requests \ {r}
    /\ IF outcome = "ok" THEN UNCHANGED nFailures
       ELSE /\ nFailures < MaxFailures
            /\ nFailures' = nFailures + 1
    /\ containers' =
         CASE outcome = "ok" ->
                [containers EXCEPT ![r.lang] =
                    SetContent(@, r.seg, "final-text animate-in", Translated(r.text))]
           [] outcome = "throw" ->
                [containers EXCEPT ![r.lang] =
                    SetContent(@, r.seg, "loading-text", Blank)]
           [] OTHER -> containers
    /\ UNCHANGED <<ovVars, prog, sessionVars, lastFinalText, originalContainer,
                   interimText, nSegments, appVars>>
    /\ UNCHANGED lastDelivered

\* mutant: clearAll that forgets the translation columns
V4_clearAllSourceOnly ==
    /\ prog = "v4"
    /\ Open
    /\ lastFinalText' = Empty
    /\ originalContainer' = <<>>
    /\ lastDelivered' = NoDelivery
    /\ UNCHANGED <<ovVars, prog, sessionVars, containers, interimText, requests,
                   nSegments, nFailures, appVars>>

\* clearAll
V4_clearAll ==
    /\ prog = "v4"
    /\ Open
    /\ lastFinalText' = Empty
    /\ originalContainer' = <<>>
    /\ containers' = [l \in Langs |-> <<>>]
    /\ lastDelivered' = NoDelivery
    /\ UNCHANGED <<ovVars, prog, sessionVars, interimText, requests, nSegments,
                   nFailures, appVars>>

V4_Next ==
    \/ V4_onstart
    \/ V4_onend
    \/ V4_restartTimer
    \/ V4_micClick
    \/ \E ev \in Events : V4_onresult(ev)
    \/ \E r \in requests, o \in Outcomes : V4_translateDone(r, o)
    \/ V4_clearAll

\* --------------------------------------------------------------- v6
\* recognition.onstart
V6_onstart ==
    /\ prog = "v6"
    /\ Open
    /\ engine = "starting"
    /\ engine' = "running"
    /\ isListening' = TRUE
    /\ UNCHANGED <<ovVars, prog, restartTimers, wantsStop, lastFinalText,
                   columnVars, appVars>>
    /\ lastDelivered' = NoDelivery

\* recognition.onend: schedules the restart while isListening
V6_onend ==
    /\ prog = "v6"
    /\ Open
    /\ engine \in {"starting", "running", "ending"}
    /\ engine' = "idle"
    /\ IF isListening
       THEN /\ restartTimers < MaxTimers
            /\ restartTimers' = restartTimers + 1
       ELSE UNCHANGED restartTimers
    /\ UNCHANGED <<ovVars, prog, isListening, wantsStop, lastFinalText,
                   columnVars, appVars>>
    /\ lastDelivered' = NoDelivery

\* the callback of onend's setTimeout: try { recognition.start() } catch {}
V6_restartTimer ==
    /\ prog = "v6"
    /\ Open
    /\ restartTimers > 0
    /\ restartTimers' = restartTimers - 1
    /\ engine' = recognitionStart(engine)
    /\ UNCHANGED <<ovVars, prog, isListening, wantsStop, lastFinalText,
                   columnVars, appVars>>
    /\ lastDelivered' = NoDelivery

\* the click handler of micButton
V6_micClick ==
    /\ prog = "v6"
    /\ Open
    /\ IF isListening
       THEN /\ isListening' = FALSE
            /\ engine' = recognitionStop(engine)
            /\ wantsStop' = TRUE
       ELSE /\ engine' = recognitionStart(engine)
            /\ wantsStop' = FALSE
            /\ UNCHANGED isListening
    /\ UNCHANGED <<ovVars, prog, restartTimers, lastFinalText, columnVars, appVars>>
    /\ lastDelivered' = NoDelivery

\* originalContainer.innerText: the spans of the main paragraph, each " " + text,
\* then the interim span
RECURSIVE SpanText(_)
SpanText(column) ==
    IF Len(column) = 0 THEN Empty
    ELSE <<SP>> \o column[1].text \o SpanText(Tail(column))

InnerText(column, interim) == SpanText(column) \o interim

\* the loop of onresult over event.results; st carries the columns as the loop
\* leaves them and the local variable interim
RECURSIVE V6_loop(_, _, _)
V6_loop(results, i, st) ==
    IF i > Len(results) THEN st
    ELSE LET transcript == Trim(results[i].transcript)
             currentScreenText == InnerText(st.orig, interimText)
             cleanText == removeOverlapStr(currentScreenText, transcript)
             seg == st.n + 1
         IN  IF ~results[i].isFinal
             THEN V6_loop(results, i + 1, [st EXCEPT !.interim = transcript])
             ELSE IF EndsWith(currentScreenText, transcript)
             THEN V6_loop(results, i + 1, st)
             ELSE IF Len(cleanText) > 0 /\ Trim(cleanText) # Empty
             THEN V6_loop(results, i + 1,
                    [st EXCEPT !.orig = appendSource(st.orig, seg, cleanText),
                               !.reqs = st.reqs \cup NewRequests(seg, cleanText),
                               !.n = seg])
             ELSE V6_loop(results, i + 1, st)

\* updateInterimDisplay(text)
updateInterimDisplay(text) == IF text # Empty THEN <<SP>> \o text ELSE Empty

\* recognition.onresult
V6_onresult(ev) ==
    /\ prog = "v6"
    /\ Open
    /\ engine = "running"
    /\ LET st == V6_loop(ev, 1, [orig |-> originalContainer, reqs |-> requests,
                                 n |-> nSegments, interim |-> Empty])
       IN  /\ st.n <= MaxSegments
           /\ Cardinality(st.reqs) <= MaxInFlight
           /\ originalContainer' = st.orig
           /\ requests' = st.reqs
           /\ nSegments' = st.n
           /\ interimText' = updateInterimDisplay(st.interim)
    /\ lastDelivered' = Delivery(ev)
    /\ UNCHANGED <<ovVars, prog, sessionVars, lastFinalText, containers,
                   nFailures, appVars>>

\* translateAndAppend after its await: only a status 200 appends
V6_translateDone(r, outcome) ==
    /\ prog = "v6"
    /\ r \in requests
    /\ requests' = requests \ {r}
    /\ IF outcome = "ok" THEN UNCHANGED nFailures
       ELSE /\ nFailures < MaxFailures
            /\ nFailures' = nFailures + 1
    /\ containers' =
         IF outcome = "ok"
         THEN [containers EXCEPT ![r.lang] =
                  Append(@, [seg |-> r.seg, cls |-> "final-text",
                             content |-> Translated(r.text)])]
         ELSE containers
    /\ UNCHANGED <<ovVars, prog, sessionVars, lastFinalText, originalContainer,
                   interimText, nSegments, appVars>>
    /\ UNCHANGED lastDelivered

\* clearAll: innerHTML = '' removes the paragraphs and the interim wrappers
V6_clearAll ==
    /\ prog = "v6"
    /\ Open
    /\ originalContainer' = <<>>
    /\ containers' = [l \in Langs |-> <<>>]
    /\ interimText' = Empty
    /\ lastDelivered' = NoDelivery
    /\ UNCHANGED <<ovVars, prog, sessionVars, lastFinalText, requests, nSegments,
                   nFailures, appVars>>

V6_Next ==
    \/ V6_onstart
    \/ V6_onend
    \/ V6_restartTimer
    \/ V6_micClick
    \/ \E ev \in Events : V6_onresult(ev)
    \/ \E r \in requests, o \in Outcomes : V6_translateDone(r, o)
    \/ V6_clearAll

\* ------------------------------------------------------------ app.js
Pending == [kind |-> "pending", src |-> Empty]
Loading == [kind |-> "loading", src |-> Empty]
PlaceholderText == [kind |-> "placeholder", src |-> Empty]
\* getPlaceholderForLang(lang), shown in the column of lang
Unavailable == [kind |-> "unavailable", src |-> Empty]

AppOpen == nCalls < MaxCalls

\* recognition.onstart
App_onstart ==
    /\ prog = "app"
    /\ AppOpen
    /\ engine = "starting"
    /\ engine' = "running"
    /\ isListening' = TRUE
    /\ UNCHANGED <<ovVars, prog, restartTimers, wantsStop, lastFinalText,
                   columnVars, appVars>>
    /\ lastDelivered' = NoDelivery

\* recognition.onend: schedules the restart while isListening
App_onend ==
    /\ prog = "app"
    /\ AppOpen
    /\ engine \in {"starting", "running", "ending"}
    /\ engine' = "idle"
    /\ IF isListening
       THEN /\ restartTimers < MaxTimers
            /\ restartTimers' = restartTimers + 1
       ELSE UNCHANGED restartTimers
    /\ UNCHANGED <<ovVars, prog, isListening, wantsStop, lastFinalText,
                   columnVars, appVars>>
    /\ lastDelivered' = NoDelivery

\* mutant: the callback restarting through startListening
App_restartTimerFresh ==
    /\ prog = "app"
    /\ AppOpen
    /\ restartTimers > 0
    /\ restartTimers' = restartTimers - 1
    /\ finalTranscript' = Empty
    /\ lastProcessedText' = Empty
    /\ engine' = recognitionStart(engine)
    /\ UNCHANGED <<ovVars, prog, isListening, wantsStop, lastFinalText,
                   columnVars, translationCache, translationTimer, originalText,
                   targetText, calls, nCalls, lastCallText>>
    /\ lastDelivered' = NoDelivery

\* the callback of onend's setTimeout: try { recognition.start() } catch {}
App_restartTimer ==
    /\ prog = "app"
    /\ AppOpen
    /\ restartTimers > 0
    /\ restartTimers' = restartTimers - 1
    /\ engine' = recognitionStart(engine)
    /\ UNCHANGED <<ovVars, prog, isListening, wantsStop, lastFinalText,
                   columnVars, appVars>>
    /\ lastDelivered' = NoDelivery

\* recognition.onerror; the engine ends the session after an error
ErrorCodes == {"not-allowed", "no-speech", "network"}

\* mutant: onerror that treats 'not-allowed' like the other errors
App_onerrorNonFatal(error) ==
    /\ prog = "app"
    /\ AppOpen
    /\ engine \in {"starting", "running"}
    /\ engine' = "ending"
    /\ UNCHANGED <<ovVars, prog, isListening, restartTimers, wantsStop,
                   lastFinalText, columnVars, appVars>>
    /\ lastDelivered' = NoDelivery

App_onerror(error) ==
    /\ prog = "app"
    /\ AppOpen
    /\ engine \in {"starting", "running"}
    /\ engine' = "ending"
    /\ isListening' = IF error = "not-allowed" THEN FALSE ELSE isListening
    /\ UNCHANGED <<ovVars, prog, restartTimers, wantsStop, lastFinalText,
                   columnVars, appVars>>
    /\ lastDelivered' = NoDelivery

\* toggleListening: stopListening or startListening
App_toggleListening ==
    /\ prog = "app"
    /\ AppOpen
    /\ IF isListening
       THEN /\ isListening' = FALSE
            /\ engine' = recognitionStop(engine)
            /\ wantsStop' = TRUE
            /\ UNCHANGED <<finalTranscript, lastProcessedText>>
       ELSE /\ finalTranscript' = Empty
            /\ lastProcessedText' = Empty
            /\ engine' = recognitionStart(engine)
            /\ wantsStop' = FALSE
            /\ UNCHANGED isListening
    /\ lastDelivered' = NoDelivery
    /\ UNCHANGED <<ovVars, prog, restartTimers, lastFinalText, columnVars,
                   translationCache, translationTimer, originalText, targetText,
                   calls, nCalls, lastCallText>>

\* translationCache.has(cacheKey), translationCache.get(cacheKey)
CacheHas(cache, text, lang) == \E e \in cache : e.text = text /\ e.lang = lang
CacheGet(cache, text, lang) ==
    (CHOOSE e \in cache : e.text = text /\ e.lang = lang).value
\* translationCache.set(cacheKey, translation)
CacheSet(cache, text, lang, value) ==
    {e \in cache : ~(e.text = text /\ e.lang = lang)}
        \cup {[text |-> text, lang |-> lang, value |-> value]}

\* translateText up to its await: the cached translation, or a fetch under way
translateText(cache, text, lang) ==
    IF CacheHas(cache, text, lang) THEN CacheGet(cache, text, lang) ELSE Pending

\* fetches under way in a set of calls
InFlight(cs) ==
    Cardinality({p \in {<<c, l>> : c \in cs, l \in Langs} : p[1].val[p[2]] = Pending})

AllDone(val) == \A l \in Langs : val[l] # Pending

\* translateToAllLanguages(text) up to its await and, when every translation
\* comes from the cache, through the update that follows it; st carries the
\* target columns, the calls under way and the number of calls
translateToAllLanguages(text, st) ==
    IF Trim(text) = Empty THEN st
    ELSE LET val == [l \in Langs |-> translateText(translationCache, text, l)]
             id == st.n + 1
         IN  IF AllDone(val)
             THEN [target |-> val, calls |-> st.calls, n |-> id, text |-> text]
             ELSE [target |-> [l \in Langs |-> Loading],
                   calls |-> st.calls \cup {[id |-> id, text |-> text, val |-> val]},
                   n |-> id, text |-> text]

\* updateOriginalText(interimTranscript)
updateOriginalText(final, interim) == [final |-> final, interim |-> interim]

NoTimer == [set |-> FALSE, interim |-> Empty]

\* the loop of onresult over event.results: the last new final transcript and
\* the last interim transcript
RECURSIVE App_loop(_, _, _)
App_loop(results, i, st) ==
    IF i > Len(results) THEN st
    ELSE LET transcript == Trim(results[i].transcript)
         IN  IF results[i].isFinal
             THEN IF transcript # Empty /\ ~Includes(finalTranscript, transcript)
                  THEN App_loop(results, i + 1, [st EXCEPT !.final = transcript])
                  ELSE App_loop(results, i + 1, st)
             ELSE App_loop(results, i + 1, [st EXCEPT !.interim = transcript])

\* recognition.onresult
App_onresult(ev) ==
    /\ prog = "app"
    /\ AppOpen
    /\ engine = "running"
    /\ LET st == App_loop(ev, 1, [final |-> Empty, interim |-> Empty])
           accepted == st.final # Empty
           newFinal == IF accepted THEN finalTranscript \o st.final \o <<SP>>
                       ELSE finalTranscript
           textToTranslate == Trim(newFinal)
           dispatch == accepted /\ textToTranslate # lastProcessedText
           now == [target |-> targetText, calls |-> calls, n |-> nCalls,
                   text |-> lastCallText]
           after == IF dispatch THEN translateToAllLanguages(textToTranslate, now)
                    ELSE now
       IN  /\ InFlight(after.calls) <= MaxInFlight
           /\ finalTranscript' = newFinal
           /\ lastProcessedText' = IF dispatch THEN textToTranslate
                                   ELSE lastProcessedText
           /\ targetText' = after.target
           /\ calls' = after.calls
           /\ nCalls' = after.n
           /\ lastCallText' = after.text
           /\ originalText' = updateOriginalText(newFinal, st.interim)
           /\ translationTimer' =
                IF st.interim # Empty /\ ~accepted
                THEN [set |-> TRUE, interim |-> st.interim]
                ELSE IF dispatch THEN NoTimer
                ELSE translationTimer
    /\ lastDelivered' = Delivery(ev)
    /\ UNCHANGED <<ovVars, prog, sessionVars, lastFinalText, columnVars,
                   translationCache>>

\* the callback of the debounce setTimeout of onresult
App_translationTimer ==
    /\ prog = "app"
    /\ AppOpen
    /\ translationTimer.set
    /\ LET fullText == Trim(finalTranscript \o translationTimer.interim)
           now == [target |-> targetText, calls |-> calls, n |-> nCalls,
                   text |-> lastCallText]
           after == IF fullText # lastProcessedText
                    THEN translateToAllLanguages(fullText, now)
                    ELSE now
       IN  /\ InFlight(after.calls) <= MaxInFlight
           /\ targetText' = after.target
           /\ calls' = after.calls
           /\ nCalls' = after.n
           /\ lastCallText' = after.text
    /\ translationTimer' = NoTimer
    /\ UNCHANGED <<ovVars, prog, sessionVars, lastFinalText, columnVars, finalTranscript, lastProcessedText,
                   translationCache, originalText>>
    /\ lastDelivered' = NoDelivery

\* the provider's answers: the three outcomes, and a status 200 whose
\* translatedText carries the entity &quot;
AppOutcomes == Outcomes \cup {"quoted"}
OkOutcomes == {"ok", "quoted"}
Quot == "&quot;"
\* the requests the provider answers with an entity: "a" into English
QuotedTexts == {WordA}
QuotedLangs == {"en"}
Apos == "&#39;"

\* data.responseData.translatedText for q = text
ProviderText(text, outcome) ==
    IF outcome = "quoted" THEN <<Quot>> \o text ELSE text

\* translation.replace(/&quot;/g, '"') and translation.replace(/&#39;/g, "'")
cleanUp(translation) ==
    [i \in 1..Len(translation) |->
        IF translation[i] = Quot THEN "\""
        ELSE IF translation[i] = Apos THEN "'"
        ELSE translation[i]]

\* mutant: translateText storing whatever it returns, the placeholder of a
\* failed request too
App_translateDoneCacheAll(c, l, outcome) ==
    /\ prog = "app"
    /\ c \in calls
    /\ c.val[l] = Pending
    /\ outcome = "quoted" => (c.text \in QuotedTexts /\ l \in QuotedLangs)
    /\ IF outcome \in OkOutcomes THEN UNCHANGED nFailures
       ELSE /\ nFailures < MaxFailures
            /\ nFailures' = nFailures + 1
    /\ LET value == IF outcome \in OkOutcomes
                    THEN Translated(cleanUp(ProviderText(c.text, outcome)))
                    ELSE Unavailable
           val == [c.val EXCEPT ![l] = value]
       IN  /\ translationCache' = CacheSet(translationCache, c.text, l, value)
           /\ IF AllDone(val)
              THEN /\ targetText' = val
                   /\ calls' = calls \ {c}
              ELSE /\ calls' = (calls \ {c}) \cup {[c EXCEPT !.val = val]}
                   /\ UNCHANGED targetText
    /\ UNCHANGED <<ovVars, prog, sessionVars, lastFinalText, originalContainer,
                   containers, interimText, requests, nSegments,
                   finalTranscript, lastProcessedText, translationTimer,
                   originalText, nCalls, lastCallText, lastDelivered>>

\* translateText after its await, for call c and language l: a status 200 with
\* data is cached and returned, anything else returns the placeholder; the call
\* whose last translation this is updates the three target columns
App_translateDone(c, l, outcome) ==
    /\ prog = "app"
    /\ c \in calls
    /\ c.val[l] = Pending
    /\ outcome = "quoted" => (c.text \in QuotedTexts /\ l \in QuotedLangs)
    /\ IF outcome \in OkOutcomes THEN UNCHANGED nFailures
       ELSE /\ nFailures < MaxFailures
            /\ nFailures' = nFailures + 1
    /\ LET value == IF outcome \in OkOutcomes
                    THEN Translated(cleanUp(ProviderText(c.text, outcome)))
                    ELSE Unavailable
           val == [c.val EXCEPT ![l] = value]
       IN  /\ translationCache' =
                IF outcome \in OkOutcomes
                THEN CacheSet(translationCache, c.text, l, value)
                ELSE translationCache
           /\ IF AllDone(val)
              THEN /\ targetText' = val
                   /\ calls' = calls \ {c}
              ELSE /\ calls' = (calls \ {c}) \cup {[c EXCEPT !.val = val]}
                   /\ UNCHANGED targetText
    /\ UNCHANGED <<ovVars, prog, sessionVars, lastFinalText, originalContainer,
                   containers, interimText, requests, nSegments,
                   finalTranscript, lastProcessedText, translationTimer,
                   originalText, nCalls, lastCallText>>
    /\ UNCHANGED lastDelivered

\* clearAll
App_clearAll ==
    /\ prog = "app"
    /\ AppOpen
    /\ finalTranscript' = Empty
    /\ lastProcessedText' = Empty
    /\ translationCache' = {}
    /\ originalText' = updateOriginalText(Empty, Empty)
    /\ targetText' = [l \in Langs |-> PlaceholderText]
    /\ lastDelivered' = NoDelivery
    /\ UNCHANGED <<ovVars, prog, sessionVars, lastFinalText, columnVars,
                   translationTimer, calls, nCalls, lastCallText>>

App_Next ==
    \/ App_onstart
    \/ App_onend
    \/ App_restartTimer
    \/ \E error \in ErrorCodes : App_onerror(error)
    \/ App_toggleListening
    \/ \E ev \in Events : App_onresult(ev)
    \/ App_translationTimer
    \/ \E c \in calls, l \in Langs, o \in AppOutcomes : App_translateDone(c, l, o)
    \/ App_clearAll

\* ------------------------------------------------------------ the page
PageInit ==
    /\ ovPrev = Empty
    /\ ovNew = Empty
    /\ ovOut = NoResult
    /\ ProgramInit

Init == prog \in Programs /\ PageInit

Next == V4_Next \/ V6_Next \/ App_Next

\* the page running any of the three versions
Spec == Init /\ [][Next]_vars

\* the page running one version
V4Init == prog = "v4" /\ PageInit
V4Spec == V4Init /\ [][V4_Next]_vars

V6Init == prog = "v6" /\ PageInit
V6Spec == V6Init /\ [][V6_Next]_vars

AppInit == prog = "app" /\ PageInit
AppSpec == AppInit /\ [][App_Next]_vars

\* the page running v4 or app.js, the timer callbacks of onend run once due
RestartInit == prog \in {"v4", "app"} /\ PageInit
RestartNext == V4_Next \/ App_Next
RestartSpec ==
    /\ RestartInit
    /\ [][RestartNext]_vars
    /\ WF_vars(V4_restartTimer)
    /\ WF_vars(App_restartTimer)

\* ------------------------------------------------------------- claims

\* the words of a text as the claims count them: none for the empty text
WordsOf(t) == IF Trim(t) = Empty THEN <<>> ELSE Split(Trim(t))

\* k is an overlap of prev and new: the last k words of prev are the first k of new
IsOverlap(prev, new, k) ==
    /\ k <= Len(WordsOf(prev))
    /\ k <= Len(WordsOf(new))
    /\ SliceLast(WordsOf(prev), k) = SliceFirst(WordsOf(new), k)

\* the largest overlap of at most window words, 0 when there is none
LargestOverlap(prev, new, window) ==
    LET ks == {k \in 1..window : IsOverlap(prev, new, k)}
    IN  IF ks = {} THEN 0 ELSE CHOOSE k \in ks : \A j \in ks : j <= k

Trimmed(prev, new, window) ==
    LET k == LargestOverlap(prev, new, window)
    IN  IF k = 0 THEN new ELSE Join(SliceFrom(WordsOf(new), k))

\* C1: removeOverlap (window 5) and removeOverlapStr (window 10) return the new
\* text without its first k words, k the largest overlap within the window, and
\* the new text unchanged when there is no overlap.
C1_OverlapTrim ==
    ovOut.called =>
        /\ ovOut.v4 = Trimmed(ovPrev, ovNew, Window4)
        /\ ovOut.v6 = Trimmed(ovPrev, ovNew, Window10)

\* a call whose overlap is cut by both windows: more than 10 words overlap
C1_Witness ==
    /\ ovOut.called
    /\ \E k \in (Window10 + 1)..MaxRun : IsOverlap(ovPrev, ovNew, k)
    /\ ovOut.v4 # ovOut.v6
    /\ ovOut.v6 # ovNew

\* recognition.onresult of whichever version runs
OnResult(ev) == V4_onresult(ev) \/ V6_onresult(ev) \/ App_onresult(ev)

\* events that deliver one final transcript and nothing else
FinalEvents == {ev \in Events : Delivery(ev).some}

\* C2: the same final transcript delivered twice in succession: the second
\* delivery appends nothing, dispatches nothing and leaves the reconciliation
\* state as it is.
C2_DuplicateIgnored ==
    [][\A ev \in FinalEvents :
          (lastDelivered = Delivery(ev) /\ OnResult(ev)) =>
              UNCHANGED <<originalContainer, containers, requests, lastFinalText,
                          finalTranscript, lastProcessedText, calls, nCalls>>]_vars

\* t is made of the last words of last
IsWordSuffix(t, last) == IsOverlap(last, t, Len(WordsOf(t)))

\* C3: v4 discards a final fragment that is a word-suffix of lastFinalText,
\* whatever its length: no column and no state changes.
C3_SuffixDiscarded ==
    [][\A ev \in FinalEvents :
          (IsWordSuffix(Delivery(ev).text, lastFinalText) /\ V4_onresult(ev)) =>
              UNCHANGED <<originalContainer, containers, requests,
                          lastFinalText>>]_vars

\* a step of v4 that accepts the single final transcript of ev
V4_accepts(ev) ==
    /\ V4_onresult(ev)
    /\ Len(originalContainer') = Len(originalContainer) + 1

Last(column) == column[Len(column)]

\* C4 as stated: the text v4 emits for an accepted segment shares no overlap of
\* 1..5 words with the lastFinalText it was compared against.
C4_NoOverlapLeft ==
    [][\A ev \in FinalEvents :
          V4_accepts(ev) =>
              \A k \in 1..Window4 :
                  ~IsOverlap(lastFinalText, Last(originalContainer').text, k)]_vars

\* C4 as amended: the text v4 emits is the raw transcript without its first d
\* words, d the longest overlap of at most 5 words of the raw transcript with
\* lastFinalText; no longer overlap within the window stays in the transcript.
C4_LongestOverlapRemoved ==
    [][\A ev \in FinalEvents :
          V4_accepts(ev) =>
              LET raw == Delivery(ev).text
                  emitted == Last(originalContainer').text
              IN  \E d \in 0..Window4 :
                      /\ d <= Len(WordsOf(raw))
                      /\ emitted = Join(SliceFrom(WordsOf(raw), d))
                      /\ d > 0 => IsOverlap(lastFinalText, raw, d)
                      /\ \A k \in (d + 1)..Window4 :
                             ~IsOverlap(lastFinalText, raw, k)]_vars

\* v4 has accepted "a" and then "a a", of which it kept the second "a"
C4_Witness ==
    /\ prog = "v4"
    /\ Len(originalContainer) = 2
    /\ originalContainer[1].text = WordA
    /\ originalContainer[2].text = WordA
    /\ lastFinalText = Join(<<WordA, WordA>>)

\* C5: in v6 the entries of each target column are in the order in which their
\* segments were accepted.
C5_ColumnOrder ==
    prog = "v6" =>
        \A l \in Langs : \A i, j \in 1..Len(containers[l]) :
            i < j => containers[l][i].seg < containers[l][j].seg

\* translateAndAppend after its await, of whichever version runs
TranslateDone(r, o) == V4_translateDone(r, o) \/ V6_translateDone(r, o)

\* C6: v4 and v6 append an accepted segment to the source column in the step
\* that accepts it and dispatches its requests; a failed request changes
\* neither the source column nor the columns and requests of the other languages.
C6_SourceFirstFailureIsolated ==
    [][/\ Len(originalContainer') - Len(originalContainer) = nSegments' - nSegments
          \/ originalContainer' = <<>>
       /\ \A r \in requests' \ requests :
              \E i \in 1..Len(originalContainer') :
                  /\ originalContainer'[i].seg = r.seg
                  /\ originalContainer'[i].text = r.text
       /\ \A r \in requests : \A o \in {"status", "throw"} :
              TranslateDone(r, o) =>
                  /\ originalContainer' = originalContainer
                  /\ requests' = requests \ {r}
                  /\ \A l \in Langs \ {r.lang} : containers'[l] = containers[l]]_vars

\* a request of a segment has failed, another language shows its translation of
\* the same segment, and the segment is in the source column
C6_Witness ==
    /\ prog \in {"v4", "v6"}
    /\ nFailures > 0
    /\ \E i \in 1..Len(originalContainer) : \E l \in Langs :
          \E j \in 1..Len(containers[l]) :
              /\ containers[l][j].seg = originalContainer[i].seg
              /\ containers[l][j].content = Translated(originalContainer[i].text)
              /\ \E m \in Langs \ {l} :
                    /\ \A r \in requests :
                          ~(r.seg = originalContainer[i].seg /\ r.lang = m)
                    /\ \A k \in 1..Len(containers[m]) :
                          containers[m][k].seg = originalContainer[i].seg =>
                              containers[m][k].content # Translated(originalContainer[i].text)

HasRequest(seg, l) == \E r \in requests : r.seg = seg /\ r.lang = l

\* C7: a failed request leaves an explicit failure marker in its column: no
\* entry stays in the loading state once its request is over (v4), and every
\* segment of the source column has, in every target column, a request under
\* way or an entry (v6).
C7_FailureMarked ==
    /\ prog = "v4" =>
          \A l \in Langs : \A i \in 1..Len(containers[l]) :
              containers[l][i].content = Dots => HasRequest(containers[l][i].seg, l)
    /\ prog = "v6" =>
          \A i \in 1..Len(originalContainer) : \A l \in Langs :
              \/ HasRequest(originalContainer[i].seg, l)
              \/ \E j \in 1..Len(containers[l]) :
                    containers[l][j].seg = originalContainer[i].seg

\* C8: in app.js, when the request of one language of the latest call has not
\* returned and the requests of the other two are over, the columns of the
\* other two show their results.
C8_OthersNotBlocked ==
    prog = "app" =>
        \A c \in calls : \A n \in Langs :
            (/\ c.id = nCalls
             /\ c.val[n] = Pending
             /\ \A l \in Langs \ {n} : c.val[l] # Pending)
                => \A l \in Langs \ {n} : targetText[l] = c.val[l]

\* C9: in app.js the step that completes the last call under way leaves every
\* target column with the result for the text of the most recently started call.
C9_LatestShown ==
    [][(prog = "app" /\ calls # {} /\ calls' = {}) =>
          \A l \in Langs :
              targetText'[l] \in
                  {Translated(cleanUp(ProviderText(lastCallText', o))) : o \in OkOutcomes}
                      \cup {Unavailable}]_vars

\* C10: after a user stop, and until the user asks for a start, recognition is
\* not started again and isListening stays false.
C10_StopIsTerminal ==
    wantsStop => (~isListening /\ engine \in {"idle", "ending"})


\* the run still takes events: segments (v4) or calls (app.js) are left
RunOpen == IF prog = "app" THEN AppOpen ELSE Open

\* isListening is set and the engine has ended
AwaitsRestart == isListening /\ engine = "idle"

\* C11: while isListening is set, an ended engine always has a restart pending,
\* and the restart is attempted: start() is called again, after every end,
\* unless the user stops first.
C11_RestartRetried ==
    /\ [](AwaitsRestart => restartTimers > 0)
    /\ (AwaitsRestart /\ RunOpen) ~> (~AwaitsRestart \/ ~RunOpen)

\* a restart was attempted: start() called by the timer while isListening is set
C11_Witness ==
    /\ prog \in {"v4", "app"}
    /\ isListening
    /\ engine = "starting"
    /\ ~wantsStop


\* C12: in app.js the error 'not-allowed' sets isListening to false, and the end
\* event that finds isListening false schedules no restart; the errors
\* 'no-speech' and 'network' leave isListening, finalTranscript and
\* lastProcessedText as they are.
C12_OnlyNotAllowedFatal ==
    [][/\ App_onerror("not-allowed") => (~isListening' /\ engine' = "ending")
       /\ (App_onend /\ ~isListening) =>
              (restartTimers' = restartTimers /\ ~isListening' /\ engine' = "idle")
       /\ \A error \in {"no-speech", "network"} :
              App_onerror(error) =>
                  UNCHANGED <<isListening, finalTranscript, lastProcessedText>>]_vars

\* a session with accepted text that 'not-allowed' has ended: no user stop, the
\* engine idle and no restart pending
C12_Witness ==
    /\ prog = "app"
    /\ ~isListening
    /\ ~wantsStop
    /\ engine = "idle"
    /\ restartTimers = 0
    /\ finalTranscript # Empty


\* C13: in v6 clearAll leaves the source column, the interim slot and the three
\* target columns empty, and as long as the source column is empty, no segment
\* having been accepted since, the target columns are empty too.
C13_ClearedStaysEmpty ==
    [][/\ V6_clearAll =>
              /\ originalContainer' = <<>>
              /\ interimText' = Empty
              /\ \A l \in Langs : containers'[l] = <<>>
       /\ (prog = "v6" /\ originalContainer' = <<>>) =>
              \A l \in Langs : containers'[l] = <<>>]_vars


\* what onresult of v6 does to the source column for one final transcript when
\* the interim slot is empty
WithoutInterim(column, transcript, n) ==
    LET screen == InnerText(column, Empty)
        cleanText == removeOverlapStr(screen, transcript)
    IN  IF EndsWith(screen, transcript) \/ Trim(cleanText) = Empty THEN column
        ELSE appendSource(column, n + 1, cleanText)

\* C14: in v6 a final transcript is handled as it would be with an empty interim
\* slot: the content of the slot neither discards it nor changes the text
\* appended to the source column, nor enters the column.
C14_InterimNoInfluence ==
    [][\A ev \in FinalEvents :
          V6_onresult(ev) =>
              originalContainer' =
                  WithoutInterim(originalContainer, Delivery(ev).text, nSegments)]_vars


\* C15: in v4 lastFinalText changes only in an onresult step that accepts a final
\* result, and becomes the whole transcript of the accepted result, not the
\* trimmed text; an event whose results are interim or discarded leaves it as it
\* is (clearAll is the explicit reset).
C15_LastFinalTextFrame ==
    [][/\ \A ev \in Events :
              V4_onresult(ev) =>
                  LET accepted == Len(originalContainer') > Len(originalContainer)
                  IN  /\ ~accepted => lastFinalText' = lastFinalText
                      /\ accepted =>
                             \E i \in 1..Len(ev) :
                                 /\ ev[i].isFinal
                                 /\ lastFinalText' = Trim(ev[i].transcript)
                      /\ (accepted /\ Delivery(ev).some) =>
                             lastFinalText' = Delivery(ev).text
       /\ (prog = "v4" /\ lastFinalText' # lastFinalText) =>
              (V4_clearAll \/ \E ev \in Events : V4_onresult(ev))]_vars

\* v4 has accepted "a" and then "a ba": it emitted "ba" and remembers "a ba"
C15_Witness ==
    /\ prog = "v4"
    /\ Len(originalContainer) = 2
    /\ originalContainer[2].text = WordBA
    /\ lastFinalText = Join(<<WordA, WordBA>>)


\* the steps of an automatic restart: the end event, the timer callback that
\* calls start(), the start event
AutoRestartStep ==
    \/ V4_onend \/ V4_restartTimer \/ V4_onstart
    \/ App_onend \/ App_restartTimer \/ App_onstart

\* C16: the steps of an automatic restart leave finalTranscript and
\* lastProcessedText (app.js) and lastFinalText (v4) as they are.
C16_RestartKeepsState ==
    [][AutoRestartStep =>
          UNCHANGED <<finalTranscript, lastProcessedText, lastFinalText>>]_vars

\* app.js restarted by the timer after text was accepted and translated
C16_Witness ==
    /\ prog = "app"
    /\ isListening
    /\ engine = "starting"
    /\ finalTranscript # Empty
    /\ lastProcessedText # Empty


\* C17: in v4 the click that starts a listening session leaves lastFinalText
\* empty, so the first final result of the session is compared with nothing.
C17_StartResetsState ==
    [][(V4_micClick /\ ~isListening /\ engine = "idle" /\ engine' = "starting") =>
          lastFinalText' = Empty]_vars


\* a text with its runs of blanks reduced to one blank and none at its ends
Normalize(t) == Join(SelectSeq(Split(t), LAMBDA w : w # Empty))

\* C18: in app.js a call of translateToAllLanguages starts no provider request
\* for a language whose cache holds an entry for a text with the same
\* normalized form.
C18_CacheKeyNormalized ==
    [][(prog = "app" /\ nCalls' = nCalls + 1) =>
          \A l \in Langs :
              (\E e \in translationCache :
                    e.lang = l /\ Normalize(e.text) = Normalize(lastCallText'))
                  => \A c \in calls' \ calls : c.val[l] # Pending]_vars


\* C19: in v4 the completion of a request, whatever its outcome, ends the
\* request and replaces the '...' placeholder of its segment in its column.
C19_PlaceholderReplaced ==
    [][\A r \in requests : \A o \in Outcomes :
          V4_translateDone(r, o) =>
              /\ r \notin requests'
              /\ \A i \in 1..Len(containers'[r.lang]) :
                     containers'[r.lang][i].seg = r.seg =>
                         containers'[r.lang][i].content # Dots]_vars


\* events that carry two final results
TwoFinals == {ev \in Events : Len(ev) = 2 /\ ev[1].isFinal /\ ev[2].isFinal}

\* finalTranscript after one final transcript t that app.js reconciles with ft
AppAccept(ft, t) ==
    IF t # Empty /\ ~Includes(ft, t) THEN ft \o t \o <<SP>> ELSE ft

\* the source column of v4 after one final transcript t reconciled with last
V4Accept(column, last, t) ==
    IF removeOverlap(last, t) = Empty THEN column
    ELSE Append(column, removeOverlap(last, t))

\* the texts of a source column
Texts(column) == [i \in 1..Len(column) |-> column[i].text]

\* C20: an event with two final results is handled as two events with one
\* final result each, in index order: the second result is reconciled with the
\* state the first one leaves, and each result that is not discarded is
\* appended to the source transcript (finalTranscript of app.js, the source
\* column of v4).
C20_EveryFinalReconciled ==
    [][\A ev \in TwoFinals :
          LET t == Trim(ev[1].transcript)
              u == Trim(ev[2].transcript)
          IN  /\ App_onresult(ev) =>
                     finalTranscript' = AppAccept(AppAccept(finalTranscript, t), u)
              /\ V4_onresult(ev) =>
                     LET first == V4Accept(Texts(originalContainer), lastFinalText, t)
                         last == IF removeOverlap(lastFinalText, t) = Empty
                                 THEN lastFinalText ELSE t
                     IN  Texts(originalContainer') = V4Accept(first, last, u)]_vars


\* the entries a step appends to the source column of v4 or v6
Accepted ==
    {originalContainer'[i] : i \in {j \in 1..Len(originalContainer') :
                                       originalContainer'[j].seg > nSegments}}

\* C21: in v4 and v6 the requests a step dispatches are one for each accepted
\* segment and each of en, fr and zh, with the text appended to the source
\* column; a step that accepts nothing dispatches nothing.
C21_OneRequestPerLanguage ==
    [][/\ prog \in {"v4", "v6"} =>
              requests' \ requests =
                  {[seg |-> e.seg, lang |-> l, text |-> e.text] :
                       e \in Accepted, l \in Langs}
       /\ prog \in {"v4", "v6"} =>
              Cardinality(requests' \ requests) = (nSegments' - nSegments) * 3]_vars

\* v4 has accepted "a ba" after "a" and its three requests carry "ba"
C21_Witness ==
    /\ prog = "v4"
    /\ lastFinalText = Join(<<WordA, WordBA>>)
    /\ \A l \in Langs : [seg |-> 2, lang |-> l, text |-> WordBA] \in requests


\* column s is the beginning of column t
IsPrefix(s, t) == Len(s) <= Len(t) /\ SubSeq(t, 1, Len(s)) = s

\* C22: in v4 and v6 every step but clearAll leaves the entries of the source
\* column as they are and in their order, at the beginning of the new column.
C22_SourceGrowsAtEnd ==
    [][(prog \in {"v4", "v6"} /\ ~V4_clearAll /\ ~V6_clearAll) =>
          IsPrefix(originalContainer, originalContainer')]_vars

\* v6 has appended two segments, the second behind the first, with the interim
\* slot in use and every request over
C22_Witness ==
    /\ prog = "v6"
    /\ Len(originalContainer) = 2
    /\ originalContainer[1].seg = 1
    /\ originalContainer[2].seg = 2
    /\ interimText # Empty
    /\ requests = {}


\* C23: in v4 each target column has as many entries as the source column, and
\* its i-th entry is the element made for the i-th source segment, showing the
\* '...' placeholder, the text emptied by a failed request, or the translation
\* of that segment's text.
C23_ColumnsAligned ==
    prog = "v4" =>
        \A l \in Langs :
            /\ Len(containers[l]) = Len(originalContainer)
            /\ \A i \in 1..Len(originalContainer) :
                   /\ containers[l][i].seg = originalContainer[i].seg
                   /\ containers[l][i].content
                          \in {Dots, Blank, Translated(originalContainer[i].text)}

\* v4 with two segments: in the en column the second is translated while the
\* first still waits, and a request has failed
C23_Witness ==
    /\ prog = "v4"
    /\ Len(originalContainer) = 2
    /\ Len(containers["en"]) = 2
    /\ containers["en"][1].content = Dots
    /\ containers["en"][2].content = Translated(originalContainer[2].text)
    /\ nFailures > 0


\* the cache after the request of call c for language l has ended with outcome
\* o, when a successful request stores the text stored
CacheAfter(c, l, o, stored) ==
    IF o \in OkOutcomes
    THEN CacheSet(translationCache, c.text, l, Translated(stored))
    ELSE translationCache

\* what translateText returns for language l to the call a step starts
Returned(l) ==
    IF calls' = calls THEN targetText'[l]
    ELSE (CHOOSE c \in calls' \ calls : TRUE).val[l]

\* a step that starts a call returns the cached entry for each language that
\* has one and asks the provider for each language that has none
CacheHitOrRequest ==
    (prog = "app" /\ nCalls' = nCalls + 1) =>
        \A l \in Langs :
            IF CacheHas(translationCache, lastCallText', l)
            THEN Returned(l) = CacheGet(translationCache, lastCallText', l)
            ELSE Returned(l) = Pending

\* C24: in app.js a failed request stores nothing, a successful one stores
\* exactly the text the provider returned, and a call is served from the cache
\* where an entry exists and by the provider where none does.
C24_CacheHoldsProviderText ==
    [][/\ \A c \in calls : \A l \in Langs : \A o \in AppOutcomes :
              App_translateDone(c, l, o) =>
                  translationCache' = CacheAfter(c, l, o, ProviderText(c.text, o))
       /\ CacheHitOrRequest]_vars

\* C24 as amended: a successful request stores the text the provider returned
\* with its entities &quot; and &#39; replaced, which is also what the request
\* itself returns; the rest as above.
C24_CacheHoldsCleanedText ==
    [][/\ \A c \in calls : \A l \in Langs : \A o \in AppOutcomes :
              App_translateDone(c, l, o) =>
                  translationCache' =
                      CacheAfter(c, l, o, cleanUp(ProviderText(c.text, o)))
       /\ CacheHitOrRequest]_vars

\* the cache holds the cleaned form of an answer with an entity, a request has
\* failed, and the en column shows the cached text
C24_Witness ==
    /\ prog = "app"
    /\ nFailures > 0
    /\ \E e \in translationCache :
          /\ e.lang = "en"
          /\ e.value = Translated(cleanUp(<<Quot>> \o e.text))
          /\ e.value # Translated(<<Quot>> \o e.text)
          /\ targetText["en"] = e.value

====
